---- MODULE Spec2Model ----
(***************************************************************************)
(* Model of the "image-bundle" command of mindthegap: RunE of NewCommand   *)
(* (package imagebundle).  The orchestrator walks the configured           *)
(* registries, images and tags sequentially, resolves every requested      *)
(* platform against the source manifest list, issues Copy / CopyManifest   *)
(* requests to the copy tool, and finally archives the staging directory.  *)
(* The staging registry is served by a goroutine that runs concurrently    *)
(* with the orchestrator.                                                  *)
(***************************************************************************)
EXTENDS Integers, Sequences, FiniteSets, TLC

\* ------------------------------------------------------------------ bounds
MaxPlatforms == 2
MaxManifests == 2

\* ------------------------------------------------------------------ inputs
Platform(os, arch, variant) == [os |-> os, arch |-> arch, variant |-> variant]

\* platforms the operator may request with --platform
RequestedPlatforms ==
    { Platform("linux", "amd64", ""),
      Platform("linux", "arm64", ""),
      Platform("linux", "arm64", "v7") }

\* platforms a source manifest list may report
SourcePlatforms ==
    { Platform("linux", "amd64", ""),
      Platform("linux", "arm64", ""),
      Platform("linux", "arm64", "v8") }

\* the digest of the manifest of a platform: content-addressed, so one per
\* platform; a source may also report no digest at all
DigestOf(p) ==
    IF p.arch = "amd64" THEN "sha256:aaa"
    ELSE IF p.variant = "v8" THEN "sha256:bbb" ELSE "sha256:ccc"

ManifestDescriptors ==
    UNION { { [os |-> p.os, arch |-> p.arch, variant |-> p.variant, digest |-> d] :
                d \in {"", DigestOf(p)} } : p \in SourcePlatforms }

\* the zero value of manifestlist.ManifestDescriptor (missing map key)
ZeroManifest == [os |-> "", arch |-> "", variant |-> "", digest |-> ""]

SeqsUpTo(S, n) == UNION { [1..k -> S] : k \in 0..n }

PlatformLists == SeqsUpTo(RequestedPlatforms, MaxPlatforms)
ManifestLists == SeqsUpTo(ManifestDescriptors, MaxManifests)

\* config.ParseFile result: registry name -> RegistryConfig
Cfg ==
    [ r \in {"docker.io", "registry.local"} |->
        IF r = "docker.io"
        THEN [tlsVerify |-> "nil", username |-> "", password |-> "",
              images |-> [i \in {"library/nginx"} |-> <<"1.25", "1.26">>]]
        ELSE [tlsVerify |-> "false", username |-> "admin", password |-> "secret",
              images |-> [i \in {"app"} |-> <<"v1">>]] ]

RegAddress == "127.0.0.1:5000"

VARIABLES
    pc,                \* position of RunE
    err,               \* error RunE returns ("none" while there is none)
    proc,              \* the process: "running", or how it ended
    tempDir,           \* "none", "exists", "removed"
    deferRemove,       \* defer os.RemoveAll(tempDir) is registered
    regState,          \* the registry goroutine
    platforms,         \* the platforms slice
    platformArgs,      \* --platform values as the operator gave them
    outputCheck,       \* <<overwrite, os.Stat(outputFile)>>, until the check is made
    verbose,           \* klog.V(4).Enabled()
    todoRegs,          \* registries the range over cfg has not visited yet
    registryName,
    skopeoOpts,
    todoImages,        \* images the range over registryConfig.Images has not visited
    imageName,
    tagIdx,            \* index into imageTags
    srcManifests,      \* srcImageManifestList.Manifests, until the platform loop starts
    platformManifests, \* the index built from the source manifest list
    destManifests,     \* destImageManifestList.Manifests
    digestFound,
    pIdx,              \* index into platforms
    reqs,              \* requests issued to the copy tool for the current tag
    processed,         \* (registry, image, tag) triples completed
    archived           \* number of ArchiveDirectory calls

vars == <<pc, err, proc, tempDir, deferRemove, regState, platforms, verbose, outputCheck, platformArgs,
          todoRegs, registryName, skopeoOpts, todoImages, imageName, tagIdx,
          srcManifests, platformManifests, destManifests, digestFound, pIdx,
          reqs, processed, archived>>

orchVars == <<pc, err, tempDir, deferRemove, platforms, verbose, outputCheck, platformArgs,
              todoRegs, registryName, skopeoOpts, todoImages, imageName, tagIdx,
              srcManifests, platformManifests, destManifests, digestFound, pIdx,
              reqs, processed, archived>>

tagVars == <<srcManifests, platformManifests, destManifests, digestFound, pIdx, reqs>>
loopVars == <<todoRegs, registryName, skopeoOpts, todoImages, imageName, tagIdx>>

\* ------------------------------------------------------- pure computations
\* platform.String(): os/arch, plus /variant when the variant is non-empty
PlatformString(p) ==
    p.os \o "/" \o p.arch \o (IF p.variant # "" THEN "/" \o p.variant ELSE "")

\* key of a source manifest in platformManifests
SrcManifestPlatform(m) ==
    LET base == m.os \o "/" \o m.arch
    IN  IF m.variant # "" THEN base \o "/" \o m.variant ELSE base

\* a map in which the first entry of a key is kept
IndexOfKeepFirst(ms, n) ==
    LET keys == { SrcManifestPlatform(ms[i]) : i \in 1..n }
        first(k) == CHOOSE i \in 1..n :
                      /\ SrcManifestPlatform(ms[i]) = k
                      /\ \A h \in 1..(i - 1) : SrcManifestPlatform(ms[h]) # k
    IN  [k \in keys |-> ms[first(k)]]

\* the map after inserting ms[1..n] in order: a later entry overwrites
RECURSIVE IndexOf(_, _)
IndexOf(ms, n) ==
    IF n = 0 THEN << >>
    ELSE LET prev == IndexOf(ms, n - 1)
             k == SrcManifestPlatform(ms[n])
         IN  [x \in (DOMAIN prev) \cup {k} |-> IF x = k THEN ms[n] ELSE prev[x]]

BuildIndex(ms) == IndexOf(ms, Len(ms))

\* platformManifests[key]: the entry, or the zero value, and ok
MapGet(idx, key) ==
    IF key \in DOMAIN idx THEN [manifest |-> idx[key], ok |-> TRUE]
    ELSE [manifest |-> ZeroManifest, ok |-> FALSE]

\* a lookup that never retries with the v8 variant
FallbackPlatformNone(p) == p

\* the rewrite of the loop variable p after a failed first lookup
FallbackPlatform(p) ==
    IF p.arch = "arm64" THEN [p EXCEPT !.variant = "v8"] ELSE p

\* lookup of one requested platform: the loop variable p as it is after the
\* lookup, the platformManifest and ok
Resolve(idx, requested) ==
    LET first == MapGet(idx, PlatformString(requested))
    IN  IF first.ok
        THEN [p |-> requested, manifest |-> first.manifest, ok |-> TRUE]
        ELSE LET p2 == FallbackPlatform(requested)
                 second == MapGet(idx, PlatformString(p2))
             IN  [p |-> p2, manifest |-> second.manifest, ok |-> second.ok]

DigestFound(platformManifest) == platformManifest.digest # ""

TagRef(host, image, tag) == "docker://" \o host \o "/" \o image \o ":" \o tag
DigestRef(host, image, digest) == "docker://" \o host \o "/" \o image \o "@" \o digest

\* a source reference that is never pinned to the digest
SrcRefByTag(registry, image, tag, platformManifest) == TagRef(registry, image, tag)

SrcRef(registry, image, tag, platformManifest) ==
    IF DigestFound(platformManifest)
    THEN DigestRef(registry, image, platformManifest.digest)
    ELSE TagRef(registry, image, tag)

\* a destination reference that is never pinned to the digest
DstRefByTag(image, tag, platformManifest) == TagRef(RegAddress, image, tag)

DstRef(image, tag, platformManifest) ==
    IF DigestFound(platformManifest)
    THEN DigestRef(RegAddress, image, platformManifest.digest)
    ELSE TagRef(RegAddress, image, tag)

\* options that disable the source TLS check whatever tlsVerify is
RegistryOptsInsecure(registryConfig, v4) ==
    <<"DisableSrcTLSVerify">>
    \o (IF registryConfig.username # ""
        THEN <<"SrcCredentials=" \o registryConfig.username \o ":" \o registryConfig.password>>
        ELSE << >>)
    \o (IF v4 THEN <<"Debug">> ELSE << >>)

\* skopeoOpts of one registry
RegistryOpts(registryConfig, v4) ==
    (IF registryConfig.tlsVerify = "false" THEN <<"DisableSrcTLSVerify">> ELSE << >>)
    \o (IF registryConfig.username # ""
        THEN <<"SrcCredentials=" \o registryConfig.username \o ":" \o registryConfig.password>>
        ELSE << >>)
    \o (IF v4 THEN <<"Debug">> ELSE << >>)

CopyOpts(opts, p) ==
    opts \o <<"DisableDestTLSVerify", "OS=" \o p.os, "Arch=" \o p.arch,
              "Variant=" \o p.variant>>

CopyManifestOpts(opts) == opts \o <<"DisableDestTLSVerify">>

\* a lookup that ends without a warning
WarnsNever(kind, res) == FALSE

\* lines 153-155: klog.Warningf when the platform is still not found
Warns(kind, res) == kind = "Copy" /\ ~res.ok

\* one request to the copy tool, with the lookup and the warning before it
Request(kind, src, dst, opts, ok, requested, res, manifests) ==
    [kind |-> kind, registry |-> registryName, image |-> imageName,
     tag |-> Cfg[registryName].images[imageName][tagIdx],
     src |-> src, dst |-> dst, opts |-> opts, ok |-> ok,
     requested |-> requested, found |-> res.ok, p |-> res.p,
     manifest |-> res.manifest, warned |-> Warns(kind, res),
     manifests |-> manifests]

NoPlatform == Platform("", "", "")
NoResolution == [p |-> NoPlatform, manifest |-> ZeroManifest, ok |-> FALSE]

\* a Copy whose error is dropped
CopyFailedIgnored(ok) == FALSE

\* line 175: the error check after Copy
CopyFailed(ok) == ~ok

\* a CopyManifest whose error is dropped
PublishFailedIgnored(ok) == FALSE

\* line 195: the error check after CopyManifest
PublishFailed(ok) == ~ok

\* an append that does not look at digestFound
AppendManifestAlways(list, platformManifest, found) == Append(list, platformManifest)

\* an append at the front of the list
AppendManifestFront(list, platformManifest, found) ==
    IF found THEN <<platformManifest>> \o list ELSE list

\* lines 182-184: the entry is appended when digestFound
AppendManifest(list, platformManifest, found) ==
    IF found THEN Append(list, platformManifest) ELSE list

\* a publish that does not look at digestFound
PublishGuardAlways(found) == TRUE

\* line 186: the manifest list is published when digestFound
PublishGuard(found) == found

\* a loop variable that aliases the element of the slice
PlatformsWrittenBack(ps, i, p) == [ps EXCEPT ![i] = p]

\* line 146: p is a copy of platforms[i]: assigning p.variant leaves the slice alone
PlatformsAfter(ps, i, p) == ps

\* ------------------------------------------------------------------- state
Init ==
    /\ pc = "start"
    /\ err = "none"
    /\ proc = "running"
    /\ tempDir = "none"
    /\ deferRemove = FALSE
    /\ regState = "none"
    /\ platformArgs \in PlatformLists
    /\ platforms = platformArgs
    /\ outputCheck \in { <<o, st>> : o \in BOOLEAN, st \in {"exists", "absent", "error"} }
    /\ verbose \in BOOLEAN
    /\ todoRegs = {}
    /\ registryName = ""
    /\ skopeoOpts = << >>
    /\ todoImages = {}
    /\ imageName = ""
    /\ tagIdx = 0
    /\ srcManifests = << >>
    /\ platformManifests = << >>
    /\ destManifests = << >>
    /\ digestFound = FALSE
    /\ pIdx = 0
    /\ reqs = << >>
    /\ processed = {}
    /\ archived = 0

\* return <error> from RunE
Fail(e) ==
    /\ pc' = "return"
    /\ err' = e

\* ------------------------------------------------------ orchestrator steps
\* an output check that does not mind an existing file
OutputCheckErrorNoExists(overwrite, stat) ==
    IF ~overwrite /\ stat = "error" THEN "statError" ELSE "none"

\* lines 41-54: the error of the output check, "none" when it passes
OutputCheckError(overwrite, stat) ==
    IF ~overwrite /\ stat = "exists" THEN "outputExists"
    ELSE IF ~overwrite /\ stat = "error" THEN "statError"
    ELSE "none"

\* lines 41-54
CheckOutput ==
    /\ proc = "running" /\ pc = "start"
    /\ LET e == OutputCheckError(outputCheck[1], outputCheck[2])
       IN  IF e # "none" THEN Fail(e) ELSE pc' = "parse" /\ err' = err
    /\ outputCheck' = << >>
    /\ UNCHANGED <<proc, tempDir, deferRemove, regState, platforms, verbose, platformArgs,
                   loopVars, tagVars, processed, archived>>

\* lines 56-63
ParseConfig ==
    /\ proc = "running" /\ pc = "parse"
    /\ \E ok \in BOOLEAN :
         IF ok THEN pc' = "mktemp" /\ err' = err ELSE Fail("configParse")
    /\ UNCHANGED <<proc, tempDir, deferRemove, regState, platforms, verbose, outputCheck, platformArgs,
                   loopVars, tagVars, processed, archived>>

\* lines 65-78
MkTemp ==
    /\ proc = "running" /\ pc = "mktemp"
    /\ \E r \in {"absError", "mkdirError", "ok"} :
         IF r = "ok"
         THEN /\ tempDir' = "exists"
              /\ deferRemove' = TRUE
              /\ pc' = "newreg" /\ err' = err
         ELSE /\ Fail(r)
              /\ UNCHANGED <<tempDir, deferRemove>>
    /\ UNCHANGED <<proc, regState, platforms, verbose, outputCheck, platformArgs,
                   loopVars, tagVars, processed, archived>>

\* lines 80-95: the registry is created and its goroutine started
NewRegistry ==
    /\ proc = "running" /\ pc = "newreg"
    /\ \E ok \in BOOLEAN :
         IF ok
         THEN /\ regState' = "spawned"
              /\ todoRegs' = DOMAIN Cfg
              /\ pc' = "registries" /\ err' = err
         ELSE /\ Fail("newRegistry")
              /\ UNCHANGED <<regState, todoRegs>>
    /\ UNCHANGED <<proc, tempDir, deferRemove, platforms, verbose, outputCheck, platformArgs,
                   registryName, skopeoOpts, todoImages, imageName, tagIdx,
                   tagVars, processed, archived>>

\* lines 97-115: the next registry of the range over cfg (a Go map: any order)
NextRegistry ==
    /\ proc = "running" /\ pc = "registries"
    /\ IF todoRegs = {}
       THEN /\ pc' = "sanitize" /\ err' = err
            /\ UNCHANGED <<todoRegs, registryName, skopeoOpts, todoImages>>
       ELSE \E r \in todoRegs, loginOk \in BOOLEAN :
              /\ todoRegs' = todoRegs \ {r}
              /\ registryName' = r
              /\ skopeoOpts' = RegistryOpts(Cfg[r], verbose)
              /\ IF Cfg[r].username = "" /\ ~loginOk
                 THEN Fail("login") /\ UNCHANGED todoImages
                 ELSE /\ todoImages' = DOMAIN Cfg[r].images
                      /\ pc' = "images" /\ err' = err
    /\ UNCHANGED <<proc, tempDir, deferRemove, regState, platforms, verbose, outputCheck, platformArgs,
                   imageName, tagIdx, tagVars, processed, archived>>

\* line 117: the next image of the range over registryConfig.Images
NextImage ==
    /\ proc = "running" /\ pc = "images"
    /\ IF todoImages = {}
       THEN pc' = "registries" /\ UNCHANGED <<todoImages, imageName, tagIdx>>
       ELSE \E i \in todoImages :
              /\ todoImages' = todoImages \ {i}
              /\ imageName' = i
              /\ tagIdx' = 1
              /\ pc' = "tags"
    /\ UNCHANGED <<err, proc, tempDir, deferRemove, regState, platforms, verbose, outputCheck, platformArgs,
                   todoRegs, registryName, skopeoOpts, tagVars, processed, archived>>

ImageTags == Cfg[registryName].images[imageName]

\* line 126: the error check after InspectManifest
InspectFailed(ok) == ~ok

\* lines 118-143: the next tag: InspectManifest, the empty destination list
\* and the index of the source manifests
InspectTag ==
    /\ proc = "running" /\ pc = "tags"
    /\ IF tagIdx > Len(ImageTags)
       THEN pc' = "images" /\ err' = err /\ UNCHANGED tagVars
       ELSE LET ref == TagRef(registryName, imageName, ImageTags[tagIdx])
            IN  \E ok \in BOOLEAN, ms \in ManifestLists :
                  /\ reqs' = <<Request("InspectManifest", ref, "", << >>, ok,
                                       NoPlatform, NoResolution, << >>)>>
                  /\ IF InspectFailed(ok)
                     THEN /\ ms = << >>
                          /\ Fail("inspect")
                          /\ UNCHANGED <<srcManifests, destManifests, platformManifests>>
                     ELSE /\ srcManifests' = ms
                          /\ destManifests' = << >>
                          /\ platformManifests' = BuildIndex(ms)
                          /\ pc' = "indexed" /\ err' = err
                  /\ UNCHANGED <<digestFound, pIdx>>
    /\ UNCHANGED <<proc, tempDir, deferRemove, regState, platforms, verbose, outputCheck, platformArgs,
                   loopVars, processed, archived>>

\* lines 145-146: digestFound is declared and the range over platforms
\* starts; the source manifest list is not read after the index is built
StartPlatforms ==
    /\ proc = "running" /\ pc = "indexed"
    /\ srcManifests' = << >>
    /\ digestFound' = FALSE
    /\ pIdx' = 1
    /\ pc' = "platforms"
    /\ UNCHANGED <<err, proc, tempDir, deferRemove, regState, platforms, verbose, outputCheck, platformArgs,
                   loopVars, platformManifests, destManifests, reqs, processed, archived>>

\* lines 146-185: one iteration of the range over platforms
CopyPlatform ==
    /\ proc = "running" /\ pc = "platforms"
    /\ pIdx <= Len(platforms)
    /\ LET res == Resolve(platformManifests, platforms[pIdx])
           found == DigestFound(res.manifest)
           tag == ImageTags[tagIdx]
       IN  \E ok \in BOOLEAN :
             /\ digestFound' = found
             /\ platforms' = PlatformsAfter(platforms, pIdx, res.p)
             /\ reqs' = Append(reqs,
                   Request("Copy",
                           SrcRef(registryName, imageName, tag, res.manifest),
                           DstRef(imageName, tag, res.manifest),
                           CopyOpts(skopeoOpts, res.p), ok,
                           platforms[pIdx], res, << >>))
             /\ IF CopyFailed(ok)
                THEN Fail("copy") /\ UNCHANGED <<destManifests, pIdx>>
                ELSE /\ destManifests' = AppendManifest(destManifests, res.manifest, found)
                     /\ pIdx' = pIdx + 1
                     /\ UNCHANGED <<pc, err>>
    /\ UNCHANGED <<proc, tempDir, deferRemove, regState, verbose, outputCheck, platformArgs,
                   loopVars, srcManifests, platformManifests, processed, archived>>

\* lines 186-201: after the platforms of a tag
PublishManifest ==
    /\ proc = "running" /\ pc = "platforms"
    /\ pIdx > Len(platforms)
    /\ IF PublishGuard(digestFound)
       THEN \E ok \in BOOLEAN :
              /\ reqs' = Append(reqs,
                    Request("CopyManifest", "",
                            TagRef(RegAddress, imageName, ImageTags[tagIdx]),
                            CopyManifestOpts(skopeoOpts), ok,
                            NoPlatform, NoResolution, destManifests))
              /\ IF PublishFailed(ok) THEN Fail("publish") ELSE pc' = "tagEnd" /\ err' = err
       ELSE pc' = "tagEnd" /\ UNCHANGED <<err, reqs>>
    /\ UNCHANGED <<proc, tempDir, deferRemove, regState, platforms, verbose, outputCheck, platformArgs,
                   loopVars, srcManifests, platformManifests, destManifests,
                   digestFound, pIdx, processed, archived>>

\* line 202: the tag is done, the range over imageTags moves on
TagEnd ==
    /\ proc = "running" /\ pc = "tagEnd"
    /\ processed' = processed \cup {<<registryName, imageName, ImageTags[tagIdx]>>}
    /\ tagIdx' = tagIdx + 1
    /\ pc' = "tags"
    \* the locals of the loop body go out of scope
    /\ srcManifests' = << >>
    /\ platformManifests' = << >>
    /\ destManifests' = << >>
    /\ digestFound' = FALSE
    /\ pIdx' = 0
    /\ reqs' = << >>
    /\ UNCHANGED <<err, proc, tempDir, deferRemove, regState, platforms, verbose, outputCheck, platformArgs,
                   todoRegs, registryName, skopeoOpts, todoImages, imageName,
                   archived>>

\* lines 207-209
WriteSanitizedConfig ==
    /\ proc = "running" /\ pc = "sanitize"
    /\ \E ok \in BOOLEAN :
         IF ok THEN pc' = "archive" /\ err' = err ELSE Fail("writeConfig")
    /\ UNCHANGED <<proc, tempDir, deferRemove, regState, platforms, verbose, outputCheck, platformArgs,
                   loopVars, tagVars, processed, archived>>

\* lines 211-218
Archive ==
    /\ proc = "running" /\ pc = "archive"
    /\ archived' = archived + 1
    /\ \E ok \in BOOLEAN :
         IF ok THEN pc' = "return" /\ err' = err ELSE Fail("archive")
    /\ UNCHANGED <<proc, tempDir, deferRemove, regState, platforms, verbose, outputCheck, platformArgs,
                   loopVars, tagVars, processed>>

\* the locals of RunE are gone once it has returned or the process has ended
LocalsGone ==
    /\ todoRegs' = {} /\ registryName' = "" /\ skopeoOpts' = << >>
    /\ todoImages' = {} /\ imageName' = "" /\ tagIdx' = 0
    /\ srcManifests' = << >>
    /\ platformManifests' = << >> /\ destManifests' = << >>
    /\ digestFound' = FALSE /\ pIdx' = 0 /\ reqs' = << >>
    /\ processed' = {}

\* the deferred calls of RunE (lines 77, 95) run when it returns
Return ==
    /\ proc = "running" /\ pc = "return"
    /\ tempDir' = IF deferRemove THEN "removed" ELSE tempDir
    /\ pc' = "returned"
    /\ LocalsGone
    /\ UNCHANGED <<err, proc, deferRemove, regState, platforms, verbose, outputCheck, platformArgs, archived>>

\* the command has returned: the process exits, non-zero on an error
ExitMain ==
    /\ proc = "running" /\ pc = "returned"
    /\ proc' = IF err = "none" THEN "exit0" ELSE "exit1"
    /\ regState' = "killed"
    /\ UNCHANGED orchVars

\* ------------------------------------------------- registry goroutine steps
\* line 87: the goroutine gets to run and calls reg.ListenAndServe()
ListenAndServe ==
    /\ proc = "running" /\ regState = "spawned"
    /\ regState' = "serving"
    /\ UNCHANGED <<orchVars, proc>>

\* line 87: ListenAndServe returns, with an error or without
ListenAndServeReturn ==
    /\ proc = "running" /\ regState = "serving"
    /\ \E e \in BOOLEAN : regState' = IF e THEN "failed" ELSE "stopped"
    /\ UNCHANGED <<orchVars, proc>>

\* an exit of the goroutine with the general error code
RegistryExitCodeOne == "exit1"

\* line 89: os.Exit(2)
RegistryExitCode == "exit2"

\* lines 88-89: os.Exit(2) ends the process at once, no deferred call runs
RegistryExit ==
    /\ proc = "running" /\ regState = "failed"
    /\ proc' = RegistryExitCode
    /\ pc' = "killed"
    /\ LocalsGone
    /\ UNCHANGED <<err, tempDir, deferRemove, regState, platforms, verbose, outputCheck, platformArgs, archived>>

Next ==
    \/ CheckOutput \/ ParseConfig \/ MkTemp \/ NewRegistry
    \/ NextRegistry \/ NextImage \/ InspectTag \/ StartPlatforms \/ CopyPlatform
    \/ PublishManifest \/ TagEnd \/ WriteSanitizedConfig \/ Archive
    \/ Return \/ ExitMain
    \/ ListenAndServe \/ ListenAndServeReturn \/ RegistryExit

Spec == Init /\ [][Next]_vars

TypeOK ==
    /\ proc \in {"running", "exit0", "exit1", "exit2"}
    /\ tempDir \in {"none", "exists", "removed"}
    /\ regState \in {"none", "spawned", "serving", "failed", "stopped", "killed"}
    /\ archived \in 0..1

\* ------------------------------------------------------------ properties
CopyIdx == { i \in DOMAIN reqs : reqs[i].kind = "Copy" }
PublishIdx == { i \in DOMAIN reqs : reqs[i].kind = "CopyManifest" }

\* the Copy request i resolved its platform to an entry with a digest
ResolvedWithDigest(i) == reqs[i].found /\ reqs[i].manifest.digest # ""

AllTriples ==
    UNION { UNION { { <<r, i, Cfg[r].images[i][t]>> : t \in DOMAIN Cfg[r].images[i] } :
                    i \in DOMAIN Cfg[r].images } : r \in DOMAIN Cfg }

\* C1: when the orchestrator moves on from a tag whose copies all succeeded
\* and whose destination manifest list got at least one entry, exactly one
\* CopyManifest request has been issued for the tag.
C1_PublishWhenAppended ==
    (pc = "tagEnd" /\ destManifests # << >>) => Cardinality(PublishIdx) = 1

\* C2: a CopyManifest request carries a non-empty manifest list, and none is
\* issued for a tag none of whose platforms resolved with a digest, whatever
\* was copied by tag.
C2_PublishOnlyNonEmpty ==
    /\ \A j \in PublishIdx : reqs[j].manifests # << >>
    /\ PublishIdx # {} =>
         \E i \in CopyIdx : ResolvedWithDigest(i) /\ reqs[i].ok

\* a tag is done, platforms were copied by tag only, and nothing was published
C2_Witness ==
    /\ pc = "tagEnd"
    /\ CopyIdx # {}
    /\ \A i \in CopyIdx : ~ResolvedWithDigest(i) /\ reqs[i].ok
    /\ PublishIdx = {}

\* C3: the lookup is retried with variant v8 only for an absent arm64
\* platform requested without a variant; a platform requested with a variant
\* and absent from the index is Unresolved.
C3_FallbackOnlyWithoutVariant ==
    \A i \in CopyIdx :
      LET r == reqs[i]
          absent == PlatformString(r.requested) \notin DOMAIN platformManifests
      IN  /\ r.p # r.requested =>
                absent /\ r.requested.arch = "arm64" /\ r.requested.variant = ""
          /\ (absent /\ r.requested.variant # "") =>
                ~r.found /\ r.manifest = ZeroManifest

\* C4: <os>/arm64 requested without a variant resolves to the <os>/arm64/v8
\* entry of an index that has no <os>/arm64 entry, and its digest is the one
\* copied; an absent platform of another arch is Unresolved and copied by tag.
C4_Arm64Fallback ==
    \A i \in CopyIdx :
      LET r == reqs[i]
          key == r.requested.os \o "/" \o r.requested.arch
          v8 == r.requested.os \o "/arm64/v8"
      IN  /\ ( /\ r.requested.arch = "arm64" /\ r.requested.variant = ""
               /\ key \notin DOMAIN platformManifests
               /\ v8 \in DOMAIN platformManifests )
             => /\ r.found
                /\ r.manifest = platformManifests[v8]
                /\ r.manifest.digest # "" =>
                     r.src = DigestRef(r.registry, r.image, r.manifest.digest)
          /\ ( /\ r.requested.arch # "arm64"
               /\ PlatformString(r.requested) \notin DOMAIN platformManifests )
             => /\ ~r.found
                /\ r.manifest = ZeroManifest
                /\ r.src = TagRef(r.registry, r.image, r.tag)

\* linux/arm64 was resolved to the v8 entry and copied by its digest
C4_Witness ==
    \E i \in CopyIdx :
      /\ reqs[i].requested = Platform("linux", "arm64", "")
      /\ reqs[i].found
      /\ reqs[i].manifest.variant = "v8"
      /\ reqs[i].src = "docker://docker.io/library/nginx@sha256:bbb"

\* C5: a Copy request is digest-qualified on both sides exactly when its
\* platform resolved to an entry with a non-empty digest, and tag-qualified on
\* both sides otherwise.
C5_CopyReferences ==
    \A i \in CopyIdx :
      LET r == reqs[i]
      IN  IF r.found /\ r.manifest.digest # ""
          THEN /\ r.src = "docker://" \o r.registry \o "/" \o r.image \o "@" \o r.manifest.digest
               /\ r.dst = "docker://" \o RegAddress \o "/" \o r.image \o "@" \o r.manifest.digest
          ELSE /\ r.src = "docker://" \o r.registry \o "/" \o r.image \o ":" \o r.tag
               /\ r.dst = "docker://" \o RegAddress \o "/" \o r.image \o ":" \o r.tag

\* one tag saw a digest-qualified copy, a copy of an entry without digest and
\* a copy of an unresolved platform
C5_Witness ==
    /\ \E i \in CopyIdx : reqs[i].found /\ reqs[i].manifest.digest # ""
    /\ \E i \in CopyIdx : ~(reqs[i].found /\ reqs[i].manifest.digest # "")

\* the entries of the successful Copy requests among reqs[1..n] that resolved
\* with a digest, in the order the requests were issued
RECURSIVE CopiedWithDigest(_)
CopiedWithDigest(n) ==
    IF n = 0 THEN << >>
    ELSE IF reqs[n].kind = "Copy" /\ reqs[n].ok /\ reqs[n].manifest.digest # ""
         THEN Append(CopiedWithDigest(n - 1), reqs[n].manifest)
         ELSE CopiedWithDigest(n - 1)

\* C6: every entry of the destination manifest list has a digest and a
\* digest-qualified Copy that returned successfully, and the list holds
\* exactly the entries whose copy succeeded and whose digest is non-empty.
C6_AppendedEntries ==
    /\ \A k \in DOMAIN destManifests :
         /\ destManifests[k].digest # ""
         /\ \E i \in CopyIdx :
              /\ reqs[i].ok
              /\ reqs[i].manifest = destManifests[k]
              /\ reqs[i].dst = DigestRef(RegAddress, reqs[i].image, destManifests[k].digest)
    /\ destManifests = CopiedWithDigest(Len(reqs))

\* an entry was appended after its copy while another platform of the tag,
\* copied by tag, left no entry
C6_Witness ==
    /\ Len(destManifests) = 1
    /\ \E i \in CopyIdx : reqs[i].ok /\ reqs[i].manifest.digest = ""
    /\ \E i \in CopyIdx : reqs[i].ok /\ reqs[i].manifest.digest # ""

\* C7: a failed Copy is the last request issued: RunE returns its error
\* without an InspectManifest, Copy, CopyManifest or ArchiveDirectory after it.
C7_CopyErrorAborts ==
    /\ \A i \in CopyIdx : ~reqs[i].ok => i = Len(reqs) /\ err = "copy"
    /\ err = "copy" =>
         /\ archived = 0
         /\ \/ /\ pc = "return"
               /\ reqs # << >>
               /\ reqs[Len(reqs)].kind = "Copy" /\ ~reqs[Len(reqs)].ok
            \/ pc \in {"returned", "killed"} /\ reqs = << >>

\* a Copy failed while entries were waiting to be published and a registry
\* was still to be visited
C7_Witness ==
    /\ pc = "return" /\ err = "copy"
    /\ destManifests # << >>
    /\ todoRegs # {}

\* C8: ArchiveDirectory runs at most once, only when every configured tag
\* was processed with every request successful, and never after a failure.
C8_ArchiveAfterAllSucceeded ==
    /\ archived <= 1
    /\ pc = "tagEnd" => \A i \in DOMAIN reqs : reqs[i].ok
    /\ pc = "archive" => err = "none" /\ archived = 0 /\ processed = AllTriples
    /\ archived = 1 => err \in {"none", "archive"}
    /\ (archived = 1 /\ pc = "return") => processed = AllTriples

\* the staging directory was archived after the whole configuration
C8_Witness ==
    /\ archived = 1 /\ err = "none" /\ pc = "return"
    /\ processed = AllTriples

\* C9: when CopyManifest is issued, every entry of the list it publishes was
\* copied by digest before, successfully.
C9_CopiesBeforePublish ==
    \A j \in PublishIdx :
      \A k \in DOMAIN reqs[j].manifests :
        \E i \in CopyIdx :
          /\ i < j
          /\ reqs[i].ok
          /\ reqs[i].manifest = reqs[j].manifests[k]
          /\ reqs[i].src = DigestRef(reqs[j].registry, reqs[j].image, reqs[j].manifests[k].digest)
          /\ reqs[i].dst = DigestRef(RegAddress, reqs[j].image, reqs[j].manifests[k].digest)

\* a list of two entries was published
C9_Witness ==
    \E j \in PublishIdx :
      /\ Len(reqs[j].manifests) = 2
      /\ reqs[j].manifests[1] # reqs[j].manifests[2]

\* C10: however the process ends, a staging directory that was created has
\* been removed.
C10_TempDirRemoved ==
    (proc # "running" /\ tempDir # "none") => tempDir = "removed"

\* C11: a requested platform without a matching manifest is not fatal: a
\* warning is emitted, the platform is copied by tag, no entry is appended
\* for it, and after its successful copy the orchestrator goes on with the
\* next platform of the tag.
C11_UnresolvedNotFatal ==
    /\ \A i \in CopyIdx :
         ~reqs[i].found =>
           /\ reqs[i].warned
           /\ reqs[i].src = TagRef(reqs[i].registry, reqs[i].image, reqs[i].tag)
           /\ reqs[i].dst = TagRef(RegAddress, reqs[i].image, reqs[i].tag)
           /\ reqs[i].ok =>
                /\ err \in {"none", "copy", "publish"}
                /\ err = "none" => pc \in {"platforms", "tagEnd"}
                /\ (i = Len(reqs) /\ pc = "platforms") => pIdx = Cardinality(CopyIdx) + 1
    /\ Len(destManifests) <= Cardinality({ i \in CopyIdx : reqs[i].found })
    /\ \A k \in DOMAIN destManifests : destManifests[k] # ZeroManifest

\* an unresolved platform was copied by tag, the next platform was copied
\* after it, and the tag was completed
C11_Witness ==
    /\ pc = "tagEnd"
    /\ \E i, j \in CopyIdx :
         /\ i < j
         /\ ~reqs[i].found /\ reqs[i].ok
         /\ reqs[j].found
    /\ Len(destManifests) = 1

\* C12: no Copy or CopyManifest request is issued before the registry
\* goroutine has called ListenAndServe.
C12_ServeBeforeCopy ==
    (CopyIdx \cup PublishIdx # {}) => regState \notin {"none", "spawned"}

\* C13: with an existing output file and no --overwrite the output check
\* fails the run at once, and a run failed this way has parsed no
\* configuration, created no directory, started no registry and issued no
\* inspect, copy, publish or archive request.
C13_OutputExistsFailsFirst ==
    /\ [][(pc = "start" /\ outputCheck = <<FALSE, "exists">>)
            => (pc' = "return" /\ err' = "outputExists")]_vars
    /\ [](err = "outputExists" =>
            /\ pc \in {"return", "returned"}
            /\ proc \in {"running", "exit1"}
            /\ tempDir = "none" /\ ~deferRemove
            /\ regState \in {"none", "killed"}
            /\ todoRegs = {} /\ processed = {}
            /\ reqs = << >> /\ archived = 0)

\* the run ended with the error of the output check
C13_Witness ==
    err = "outputExists" /\ proc = "exit1" /\ tempDir = "none"

RECURSIVE ResolvedEntries(_)
ResolvedEntries(n) ==
    IF n = 0 THEN << >>
    ELSE IF reqs[n].kind = "Copy" /\ ResolvedWithDigest(n)
         THEN Append(ResolvedEntries(n - 1), reqs[n].manifest)
         ELSE ResolvedEntries(n - 1)

\* C15: a published manifest list holds exactly the entries the requested
\* platforms resolved to with a digest, in the order the platforms were
\* requested, every requested platform having been looked up, and it is
\* published to <staging>/<image>:<tag>.
C15_PublishedList ==
    \A j \in PublishIdx :
      /\ j = Len(reqs)
      /\ reqs[j].manifests = ResolvedEntries(j)
      /\ Cardinality(CopyIdx) = Len(platformArgs)
      /\ \A i \in CopyIdx : reqs[i].requested = platformArgs[i - 1]
      /\ \A k \in DOMAIN reqs[j].manifests :
           /\ reqs[j].manifests[k] \in { platformManifests[x] : x \in DOMAIN platformManifests }
           /\ \E i \in CopyIdx : reqs[i].manifest = reqs[j].manifests[k]
      /\ reqs[j].dst = "docker://" \o RegAddress \o "/" \o reqs[j].image \o ":" \o reqs[j].tag

\* a list was published that leaves out a source platform nobody requested
C15_Witness ==
    \E j \in PublishIdx :
      /\ Len(reqs[j].manifests) = 1
      /\ Cardinality(DOMAIN platformManifests) = 2
      /\ reqs[j].ok

\* C16: nothing is carried from one tag to the next: the platforms looked up
\* are always those the operator gave (the rewrite of a variant to v8 is not
\* kept), and a tag starts with an empty destination list, an index made of
\* its own source manifests only and a publish decision that is reset.
C16_NoCarryOver ==
    /\ platforms = platformArgs
    /\ \A i \in CopyIdx : reqs[i].requested = platformArgs[i - 1]
    /\ pc \in {"registries", "images", "tags"} =>
         /\ platformManifests = << >> /\ destManifests = << >>
         /\ digestFound = FALSE /\ reqs = << >>
    /\ pc = "indexed" =>
         /\ destManifests = << >>
         /\ Len(reqs) = 1
         /\ \A k \in DOMAIN platformManifests :
              \E i \in DOMAIN srcManifests : srcManifests[i] = platformManifests[k]
    /\ (pc = "platforms" /\ pIdx = 1) => (digestFound = FALSE /\ destManifests = << >>)

\* a later tag has been inspected and indexed in a run that was asked for
\* linux/arm64, the platform whose variant the lookup rewrites
C16_Witness ==
    /\ pc = "indexed"
    /\ processed # {}
    /\ \E k \in DOMAIN platformArgs : platformArgs[k] = Platform("linux", "arm64", "")
    /\ platformManifests # << >>

\* the key the claims give a source manifest
CanonicalKey(m) ==
    IF m.variant = "" THEN m.os \o "/" \o m.arch
    ELSE m.os \o "/" \o m.arch \o "/" \o m.variant

\* C17: the index maps every canonical key of the source manifest list,
\* entries without digest included, to the last entry of the list with it.
C17_IndexLastWins ==
    pc = "indexed" =>
      /\ DOMAIN platformManifests = { CanonicalKey(srcManifests[i]) : i \in DOMAIN srcManifests }
      /\ \A i \in DOMAIN srcManifests :
           (\A h \in DOMAIN srcManifests : h > i =>
                CanonicalKey(srcManifests[h]) # CanonicalKey(srcManifests[i]))
           => platformManifests[CanonicalKey(srcManifests[i])] = srcManifests[i]

\* two source entries of one platform, the first with a digest and the last
\* without, have been indexed
C17_Witness ==
    /\ pc = "indexed"
    /\ Len(srcManifests) = 2
    /\ CanonicalKey(srcManifests[1]) = CanonicalKey(srcManifests[2])
    /\ srcManifests[1].digest # "" /\ srcManifests[2].digest = ""
    /\ platformManifests[CanonicalKey(srcManifests[2])].digest = ""

\* C18: the platform filter of a Copy request is the platform of the
\* resolved source entry, and the platform as the operator requested it when
\* the platform is Unresolved.
C18_PlatformFilter ==
    \A i \in CopyIdx :
      LET r == reqs[i]
          n == Len(r.opts)
          expected == IF r.found
                      THEN Platform(r.manifest.os, r.manifest.arch, r.manifest.variant)
                      ELSE r.requested
      IN  /\ r.opts[n - 2] = "OS=" \o expected.os
          /\ r.opts[n - 1] = "Arch=" \o expected.arch
          /\ r.opts[n] = "Variant=" \o expected.variant

\* C19: the destination manifest list of a tag never holds an entry twice.
C19_NoDuplicateEntries ==
    \A k1, k2 \in DOMAIN destManifests :
      k1 # k2 => destManifests[k1] # destManifests[k2]

\* the options a request may carry: those of its own registry's
\* configuration, the destination option, the debug option of a verbose run
\* and, on a Copy, the platform filter of that Copy
ExpectedOpts(r) ==
    {"DisableDestTLSVerify"}
    \cup (IF Cfg[r.registry].tlsVerify = "false" THEN {"DisableSrcTLSVerify"} ELSE {})
    \cup (IF Cfg[r.registry].username # ""
          THEN {"SrcCredentials=" \o Cfg[r.registry].username \o ":"
                  \o Cfg[r.registry].password}
          ELSE {})
    \cup (IF verbose THEN {"Debug"} ELSE {})
    \cup (IF r.kind = "Copy"
          THEN {"OS=" \o r.p.os, "Arch=" \o r.p.arch, "Variant=" \o r.p.variant}
          ELSE {})

\* C20: a Copy or CopyManifest request carries the source options of its own
\* registry's configuration and the destination option, each once, and
\* nothing left over from another registry or from an earlier Copy.
C20_RequestOptions ==
    \A i \in CopyIdx \cup PublishIdx :
      /\ { reqs[i].opts[k] : k \in DOMAIN reqs[i].opts } = ExpectedOpts(reqs[i])
      /\ Len(reqs[i].opts) = Cardinality(ExpectedOpts(reqs[i]))

\* each registry has had a manifest list published after a Copy with its
\* platform filter
C20_Witness ==
    /\ \E t \in processed : t[1] # registryName
    /\ \E i \in CopyIdx : \E j \in PublishIdx : i < j
    /\ Cfg[registryName].username # ""

====
